---- MODULE Spec2Model ----
(***************************************************************************)
(* Transaction pool maintainers of core/transaction-pool/src/maintainer.rs *)
(* (DefaultFullTransactionPoolMaintainer,                                  *)
(* DefaultLightTransactionPoolMaintainer, TxPoolRevalidationStatus).       *)
(*                                                                         *)
(* The maintainers and the revalidation status are translated from the     *)
(* source.  The transaction queue (txpool::Pool), the chain client and the *)
(* remote fetcher are collaborators whose code is not part of the sources; *)
(* they are modelled from their description in the specification.          *)
(*                                                                         *)
(* Option<T> is modelled as a set with at most one element: None is {} and *)
(* Some(v) is {v}.  Block numbers and instants are naturals; the bounded   *)
(* inputs stay far below the width of the number types.                    *)
(***************************************************************************)
EXTENDS Integers, Sequences, FiniteSets, TLC

VARIABLES
    pool,     \* the queue: transaction -> "none" | "ready" | "future"
    status,   \* the shared TxPoolRevalidationStatus (behind its mutex)
    now,      \* the monotonic clock read by Instant::now()
    periods,  \* the Light maintainer's revalidate_time_period / revalidate_block_period
    mutex,    \* the status's mutex: the task holding it, the call that last wrote through it
    obs,      \* the last direct call on the revalidation status, its result, and the
              \* call that armed the schedule
    full,     \* the Full maintainer's call: arguments, sub-futures, results, the
              \* collaborator calls made
    light     \* the Light maintainer's calls: slot -> arguments, sub-futures, results,
              \* the collaborator and is_required calls made, whether a repeated call changed the
              \* queue, the status a clear() of the call overwrote and the call that
              \* had written it

vars == <<pool, status, now, periods, mutex, obs, full, light>>

----------------------------------------------------------------------------
(* Bounds of the model. *)

MaxTx == 3
MaxRetracted == 2
MaxTime == 2
MaxBlockNum == 2
MaxPeriod == 1
MaxLight == 2

----------------------------------------------------------------------------
(* Option<T> *)

None == {}
Some(v) == {v}
IsSome(o) == o # {}

----------------------------------------------------------------------------
(* TxPoolRevalidationStatus *)

NotScheduled == [tag |-> "NotScheduled", at_time |-> None, at_block |-> None]
Scheduled(t, b) == [tag |-> "Scheduled", at_time |-> t, at_block |-> b]
InProgress == [tag |-> "InProgress", at_time |-> None, at_block |-> None]

\* Mutant: clear() leaves a revalidation in progress alone.
Clear_KeepInProgress(self) == IF self.tag = "InProgress" THEN self ELSE NotScheduled

\* TxPoolRevalidationStatus::clear
Clear(self) == NotScheduled

\* Mutant: the deadlines must be passed, not merely reached.
IsDue_Strict(revalidate_at_time, revalidate_at_block, block, instant) ==
    \/ \E at \in revalidate_at_time : instant > at
    \/ \E at \in revalidate_at_block : block > at

\* Mutant: an unset deadline counts as reached (unwrap_or(true)).
IsDue_UnwrapTrue(revalidate_at_time, revalidate_at_block, block, instant) ==
    \/ revalidate_at_time = None
    \/ \E at \in revalidate_at_time : instant >= at
    \/ revalidate_at_block = None
    \/ \E at \in revalidate_at_block : block >= at

\* Mutant: both deadlines must be reached (&& for ||).
IsDue_Both(revalidate_at_time, revalidate_at_block, block, instant) ==
    /\ \E at \in revalidate_at_time : instant >= at
    /\ \E at \in revalidate_at_block : block >= at

\* Mutant: only the time deadline is tested; the block deadline is ignored.
IsDue_TimeOnly(revalidate_at_time, revalidate_at_block, block, instant) ==
    \E at \in revalidate_at_time : instant >= at

\* The Scheduled arm of is_required: the deadline test.
IsDue(revalidate_at_time, revalidate_at_block, block, instant) ==
    \/ \E at \in revalidate_at_time : instant >= at
    \/ \E at \in revalidate_at_block : block >= at

\* Mutant: a zero period fires in the arming call itself.
IsRequired_FireOnArm(self, block, revalidate_time_period, revalidate_block_period, instant) ==
    CASE self.tag = "NotScheduled" ->
            LET t == {instant + period : period \in revalidate_time_period}
                b == {block + period : period \in revalidate_block_period}
            IN  IF IsDue(t, b, block, instant)
                THEN [status |-> InProgress, ret |-> TRUE]
                ELSE [status |-> Scheduled(t, b), ret |-> FALSE]
      [] self.tag = "Scheduled" ->
            LET is_required == IsDue(self.at_time, self.at_block, block, instant)
            IN  [status |-> IF is_required THEN InProgress ELSE self,
                 ret |-> is_required]
      [] self.tag = "InProgress" ->
            [status |-> self, ret |-> FALSE]

\* Mutant: a call in InProgress gives the schedule up.
IsRequired_InProgressResets(self, block, revalidate_time_period, revalidate_block_period, instant) ==
    CASE self.tag = "NotScheduled" ->
            [status |-> Scheduled({instant + period : period \in revalidate_time_period},
                                  {block + period : period \in revalidate_block_period}),
             ret |-> FALSE]
      [] self.tag = "Scheduled" ->
            LET is_required == IsDue(self.at_time, self.at_block, block, instant)
            IN  [status |-> IF is_required THEN InProgress ELSE self,
                 ret |-> is_required]
      [] self.tag = "InProgress" ->
            [status |-> NotScheduled, ret |-> FALSE]

\* Mutant: a due call does not record that the revalidation is in progress.
IsRequired_StaysScheduled(self, block, revalidate_time_period, revalidate_block_period, instant) ==
    CASE self.tag = "NotScheduled" ->
            [status |-> Scheduled({instant + period : period \in revalidate_time_period},
                                  {block + period : period \in revalidate_block_period}),
             ret |-> FALSE]
      [] self.tag = "Scheduled" ->
            [status |-> self,
             ret |-> IsDue(self.at_time, self.at_block, block, instant)]
      [] self.tag = "InProgress" ->
            [status |-> self, ret |-> FALSE]

\* Mutant: the block deadline is the period itself, not block + period.
IsRequired_AbsoluteBlock(self, block, revalidate_time_period, revalidate_block_period, instant) ==
    CASE self.tag = "NotScheduled" ->
            [status |-> Scheduled({instant + period : period \in revalidate_time_period},
                                  revalidate_block_period),
             ret |-> FALSE]
      [] self.tag = "Scheduled" ->
            LET is_required == IsDue(self.at_time, self.at_block, block, instant)
            IN  [status |-> IF is_required THEN InProgress ELSE self,
                 ret |-> is_required]
      [] self.tag = "InProgress" ->
            [status |-> self, ret |-> FALSE]

\* Mutant: a call that is not due arms the schedule anew from this call's
\* periods.
IsRequired_Postpones(self, block, revalidate_time_period, revalidate_block_period, instant) ==
    CASE self.tag = "NotScheduled" ->
            [status |-> Scheduled({instant + period : period \in revalidate_time_period},
                                  {block + period : period \in revalidate_block_period}),
             ret |-> FALSE]
      [] self.tag = "Scheduled" ->
            LET is_required == IsDue(self.at_time, self.at_block, block, instant)
            IN  [status |-> IF is_required THEN InProgress
                            ELSE Scheduled({instant + period : period \in revalidate_time_period},
                                           {block + period : period \in revalidate_block_period}),
                 ret |-> is_required]
      [] self.tag = "InProgress" ->
            [status |-> self, ret |-> FALSE]

\* Mutant: a due call records InProgress and still answers false.
IsRequired_SilentFire(self, block, revalidate_time_period, revalidate_block_period, instant) ==
    CASE self.tag = "NotScheduled" ->
            [status |-> Scheduled({instant + period : period \in revalidate_time_period},
                                  {block + period : period \in revalidate_block_period}),
             ret |-> FALSE]
      [] self.tag = "Scheduled" ->
            LET is_required == IsDue(self.at_time, self.at_block, block, instant)
            IN  [status |-> IF is_required THEN InProgress ELSE self,
                 ret |-> FALSE]
      [] self.tag = "InProgress" ->
            [status |-> self, ret |-> FALSE]

\* TxPoolRevalidationStatus::is_required: the status it leaves and the value it
\* returns, for a call at clock reading `instant`.
IsRequired(self, block, revalidate_time_period, revalidate_block_period, instant) ==
    CASE self.tag = "NotScheduled" ->
            [status |-> Scheduled({instant + period : period \in revalidate_time_period},
                                  {block + period : period \in revalidate_block_period}),
             ret |-> FALSE]
      [] self.tag = "Scheduled" ->
            LET is_required == IsDue(self.at_time, self.at_block, block, instant)
            IN  [status |-> IF is_required THEN InProgress ELSE self,
                 ret |-> is_required]
      [] self.tag = "InProgress" ->
            [status |-> self, ret |-> FALSE]

----------------------------------------------------------------------------
(* Transactions and the chain seen through the client. *)

\* The transactions the queue can hold, and the extrinsics that occur in block
\* bodies: the transactions and extrinsic 0, which is never queued.
Txs == 1 .. MaxTx
Extrinsics == 0 .. MaxTx

\* Extrinsic::is_signed: Some(true) for a user-signed transaction, Some(false)
\* for a protocol-inherent one, None when it cannot be determined.
IsSignedOf(tx) ==
    CASE tx % 4 = 2 -> Some(FALSE)
      [] tx % 4 = 0 -> None
      [] OTHER -> Some(TRUE)

\* Block hashes: the client holds block 0 with an empty body, block tx with the
\* one transaction tx, and block MaxTx + 1 with every extrinsic; then one hash
\* the client does not know and one whose read fails.
NumKnown == MaxTx + 2
KnownHashes == 0 .. (NumKnown - 1)
MissingHash == NumKnown
BrokenHash == NumKnown + 1
Hashes == KnownHashes \cup {MissingHash, BrokenHash}

InBody(tx, hash) ==
    hash \in KnownHashes /\ ((tx # 0 /\ hash = tx) \/ hash = MaxTx + 1)

RECURSIVE BodyFrom(_, _)
BodyFrom(hash, tx) ==
    IF tx > MaxTx THEN <<>>
    ELSE (IF InBody(tx, hash) THEN <<tx>> ELSE <<>>) \o BodyFrom(hash, tx + 1)

\* Client::block: Ok(Some(block)), Ok(None) or Err.
ClientBlock(hash) ==
    CASE hash \in KnownHashes ->
            [res |-> "ok", parent_hash |-> (hash + 1) % NumKnown,
             extrinsics |-> BodyFrom(hash, 0)]
      [] hash = MissingHash -> [res |-> "none", parent_hash |-> hash, extrinsics |-> <<>>]
      [] OTHER -> [res |-> "err", parent_hash |-> hash, extrinsics |-> <<>>]

Range(seq) == {seq[i] : i \in DOMAIN seq}

RECURSIVE Concat(_)
Concat(seqs) == IF seqs = <<>> THEN <<>> ELSE Head(seqs) \o Concat(Tail(seqs))

SeqsUpTo(S, n) == UNION {[1 .. k -> S] : k \in 0 .. n}

----------------------------------------------------------------------------
(* The queue (txpool::Pool), from its interface in the specification. *)

PoolStates == [Txs -> {"none", "ready", "future"}]
EmptyPool == [tx \in Txs |-> "none"]

ReadyCount(p) == Cardinality({tx \in Txs : p[tx] = "ready"})
FutureCount(p) == Cardinality({tx \in Txs : p[tx] = "future"})

\* status().is_empty()
PoolIsEmpty(p) == ReadyCount(p) = 0 /\ FutureCount(p) = 0

Queued(p) == {tx \in Txs : p[tx] # "none"}
Ready(p) == {tx \in Txs : p[tx] = "ready"}

\* submit_at(block, transactions, as_retry): when the call succeeds every
\* transaction not yet queued is inserted; a failed call inserts nothing.
SubmitAt(p, xts, force, result) ==
    IF result = "ok"
    THEN [tx \in Txs |-> IF p[tx] = "none" /\ tx \in Range(xts) THEN "ready" ELSE p[tx]]
    ELSE p

\* prune(block, parent_block, extrinsics): removes the queued transactions
\* matching the extrinsics; a failed call removes nothing.
Prune(p, extrinsics, result) ==
    IF result = "ok"
    THEN [tx \in Txs |-> IF tx \in Range(extrinsics) THEN "none" ELSE p[tx]]
    ELSE p

----------------------------------------------------------------------------
(* DefaultFullTransactionPoolMaintainer *)

\* Mutant: the first retracted block that cannot be read ends the collection.
RetractedBodies_StopAtFailure(retracted) ==
    [i \in DOMAIN retracted |->
        IF \A j \in 1 .. i : ClientBlock(retracted[j]).res = "ok"
        THEN ClientBlock(retracted[i]).extrinsics ELSE <<>>]

\* Lines 92-95: the bodies of the retracted blocks that can be read, flattened in
\* retracted order, keeping the transactions whose is_signed() is Some(true).
RetractedBodies(retracted) ==
    [i \in DOMAIN retracted |->
        IF ClientBlock(retracted[i]).res = "ok"
        THEN ClientBlock(retracted[i]).extrinsics ELSE <<>>]

\* Mutant: the filter keeps the transactions that are not signed.
KeepSigned_Inverted(tx) == ~(TRUE \in IsSignedOf(tx))

\* Mutant: an extrinsic whose signedness is unknown is kept (unwrap_or(true)).
KeepSigned_UnwrapTrue(tx) == ~(FALSE \in IsSignedOf(tx))

\* Line 95: tx.is_signed().unwrap_or(false)
KeepSigned(tx) == TRUE \in IsSignedOf(tx)

RetractedTransactions(retracted) ==
    SelectSeq(Concat(RetractedBodies(retracted)), KeepSigned)

\* Lines 98-104: what the resubmit future yields for submit_at's result.
ResubmitOutput(resubmit_result) == "unit"

\* Mutant: the prune error is handed on to the caller.
PruneOutput_Propagate(prune_result) == IF prune_result = "err" THEN "error" ELSE "unit"

\* Lines 117-123: what the prune future yields for prune's result.
PruneOutput(prune_result) == "unit"

\* Mutant: only the signed extrinsics of the new block are pruned.
PruneExtrinsics_Signed(block) == SelectSeq(block.extrinsics, KeepSigned)

\* Line 116: the extrinsics handed to prune.
PruneExtrinsics(block) == block.extrinsics

\* Mutant: the parent handed to prune is always block 0.
PruneParent_Genesis(block) == 0

\* Line 114: the parent handed to prune.
PruneParent(block) == block.parent_hash

\* Mutant: the empty queue does not short-circuit the pruning.
PruneIssued_IgnoreEmpty(empty, res) == res = "ok"

\* Mutant: prune is called also when the new block could not be read.
PruneIssued_Unread(empty, res) == ~empty

\* Lines 107-113: prune is called when the queue is not empty and the new block
\* was read.
PruneIssued(empty, res) == ~empty /\ res = "ok"

\* Mutant: an operation that failed is attempted once more.
AttemptsLeft_RetryOnce(result, attempts) ==
    IF result = "err" /\ attempts < 2 THEN 1 ELSE 0

\* Lines 98-104, 117-123, 216-221 and 243: the error arm of a collaborator
\* call logs and yields; the call is not made again.
AttemptsLeft(result, attempts) == 0

\* Line 93: client.block is called once for each retracted hash, and its failure
\* is dropped by ok().unwrap_or(None).
FetchAttempts(retracted) == [i \in DOMAIN retracted |-> 1]

\* The collaborator calls a Full maintain call has made.
NoFullCalls == [bodies |-> <<>>, submit_at |-> 0, block |-> 0, prune |-> 0]

FullIdle(p) ==
    [pc |-> "idle", id |-> 0, retracted |-> <<>>, at |-> 0, xts |-> <<>>, force |-> FALSE,
     resubmit |-> "none", fetch |-> "none", prune |-> "none", prune_at |-> None,
     parent |-> 0, extrinsics |-> <<>>, out |-> "none", pool0 |-> p,
     round |-> 1, first |-> "none", calls |-> NoFullCalls]

\* Mutant: the two futures are joined instead of chained.
PruneFutureRunnable_Join(f) == f.prune = "pending"

\* Line 125: resubmit_future.then(|_| prune_future): the prune future is polled
\* once the resubmit future has completed.
PruneFutureRunnable(f) == f.prune = "pending" /\ f.resubmit \in {"ok", "err"}

\* maintain(): the synchronous part, up to the boxed future it returns, for the
\* call number `round` of a pair whose first call's prune ended as `first`.
FullCall(id, retracted, round, first) ==
    /\ LET empty == PoolIsEmpty(pool)
           block == ClientBlock(id)
           issued == PruneIssued(empty, block.res)
       IN full' = [pc |-> "running", id |-> id, retracted |-> retracted,
                   at |-> id,
                   xts |-> RetractedTransactions(retracted), force |-> TRUE,
                   resubmit |-> "pending",
                   fetch |-> IF empty THEN "skipped" ELSE block.res,
                   prune |-> IF issued THEN "pending" ELSE "none",
                   prune_at |-> IF issued THEN Some(id) ELSE None,
                   parent |-> IF issued THEN PruneParent(block) ELSE 0,
                   extrinsics |-> IF issued THEN PruneExtrinsics(block) ELSE <<>>,
                   out |-> "none", pool0 |-> pool,
                   round |-> round, first |-> first,
                   calls |-> [bodies |-> FetchAttempts(retracted),
                              submit_at |-> 1,
                              block |-> IF empty THEN 0 ELSE 1,
                              prune |-> IF issued THEN 1 ELSE 0]]
    /\ UNCHANGED <<pool, status, now, periods, mutex, obs, light>>

\* A new-best-block notification reaches the Full maintainer.
FullMaintain(id, retracted) ==
    /\ full.pc = "idle"
    /\ FullCall(id, retracted, 1, "none")

\* The caller invokes maintain once more for the same block and no retracted
\* block, right after the task of such a call has completed.
FullAgain ==
    /\ full.pc = "done"
    /\ full.round = 1
    /\ full.retracted = <<>>
    /\ FullCall(full.id, <<>>, 2, full.prune)

\* The resubmit future completes: submit_at takes effect or fails.
FullResubmit(result) ==
    /\ full.pc = "running"
    /\ full.resubmit = "pending"
    /\ pool' = SubmitAt(pool, full.xts, full.force, result)
    /\ full' = IF AttemptsLeft(result, full.calls.submit_at) > 0
               THEN [full EXCEPT !.calls.submit_at = @ + 1]
               ELSE [full EXCEPT !.resubmit = result,
                                 !.pc = IF full.prune = "pending" THEN @ ELSE "done",
                                 !.out = IF full.prune = "none"
                                         THEN ResubmitOutput(result) ELSE @]
    /\ UNCHANGED <<status, now, periods, mutex, obs, light>>

\* The prune future completes: prune takes effect or fails.
FullPrune(result) ==
    /\ full.pc = "running"
    /\ PruneFutureRunnable(full)
    /\ pool' = Prune(pool, full.extrinsics, result)
    /\ full' = IF AttemptsLeft(result, full.calls.prune) > 0
               THEN [full EXCEPT !.calls.prune = @ + 1]
               ELSE [full EXCEPT !.prune = result,
                                 !.pc = IF full.resubmit = "pending" THEN @ ELSE "done",
                                 !.out = IF full.resubmit = "pending"
                                         THEN @ ELSE PruneOutput(result)]
    /\ UNCHANGED <<status, now, periods, mutex, obs, light>>

\* The caller is done with the completed task and waits for the next notification.
FullReturn ==
    /\ full.pc = "done"
    /\ full' = FullIdle(pool)
    /\ UNCHANGED <<pool, status, now, periods, mutex, obs, light>>

Results == {"ok", "err"}

----------------------------------------------------------------------------
(* The collaborators of the Light maintainer, from the specification. *)

\* Block identifiers by number: the numbers the client has a header for, one it
\* does not know and one whose lookup fails.
Numbers == 0 .. MaxBlockNum
MissingId == MaxBlockNum + 1
BrokenId == MaxBlockNum + 2
BlockIds == Numbers \cup {MissingId, BrokenId}

\* Client::header: Ok(Some(header)), Ok(None) or Err.
ClientHeader(id) ==
    CASE id \in Numbers -> [res |-> "ok", number |-> id]
      [] id = MissingId -> [res |-> "none", number |-> 0]
      [] OTHER -> [res |-> "err", number |-> 0]

\* What remote_body can resolve to: Err, or Ok with the block's transactions.
RemoteBodies == {BodyFrom(hash, 0) : hash \in KnownHashes}
RemoteResults == {[res |-> "err", transactions |-> <<>>]}
                 \cup {[res |-> "ok", transactions |-> body] : body \in RemoteBodies}

\* hash_of: the queue-assigned hash of a transaction.
HashBase == 100
HashOf(tx) == HashBase + tx

\* prune_known(block, hashes): removes the queued transactions with these hashes.
PruneKnown(p, hashes, result) ==
    IF result = "ok"
    THEN [tx \in Txs |-> IF HashOf(tx) \in Range(hashes) THEN "none" ELSE p[tx]]
    ELSE p

\* revalidate_ready(block): removes the ready transactions found invalid.
RevalidateReady(p, invalid, result) ==
    IF result = "ok"
    THEN [tx \in Txs |-> IF p[tx] = "ready" /\ tx \in invalid THEN "none" ELSE p[tx]]
    ELSE p

----------------------------------------------------------------------------
(* DefaultLightTransactionPoolMaintainer *)

PeriodOpts == {None} \cup {Some(period) : period \in 0 .. MaxPeriod}

Slots == 1 .. MaxLight

\* The mutex of revalidation_status: nobody holds it, nothing written yet.
MutexFree == [holder |-> 0, writer |-> 0]

\* The first call of a pair has no call before it.
NoFirst == [prune |-> "none", transactions |-> <<>>]

\* The collaborator calls a Light maintain call has made.
NoLightCalls == [header |-> 0, remote_body |-> 0, prune_known |-> 0, revalidate_ready |-> 0]

LightSlotIdle ==
    [pc |-> "idle", id |-> 0, retracted |-> <<>>, empty |-> FALSE,
     header |-> "none", number |-> 0,
     prune |-> "none", reval |-> "none", resolved |-> "none", required |-> FALSE,
     fetch |-> "none", transactions |-> <<>>, hashes |-> <<>>, out |-> "none",
     known_at |-> None, reval_at |-> None, calls |-> NoLightCalls,
     is_required_calls |-> 0,
     changed |-> FALSE, cleared |-> <<"none", 0>>,
     round |-> 1, first |-> NoFirst]

\* Mutant: the retracted blocks are resubmitted as the Full maintainer does.
LightResubmitted_AsFull(retracted) == RetractedTransactions(retracted)

\* Line 265: the argument is bound to `_retracted` and never read; nothing is
\* taken from the retracted blocks.
LightResubmitted(retracted) == <<>>

\* Mutant: a block the client does not know passes as a default header.
HeaderResolved_MissingAccepted(header) == header.res # "err"

\* Lines 273-281: Ok(None) is turned into an error by ok_or, and every error
\* ends the call.
HeaderResolved(header) == header.res = "ok"

\* Mutant: prune_known is called with no hashes when the body was not fetched.
PruneStep_CallOnFailure(fetch, known) ==
    [state |-> IF known = "ok" THEN "ok" ELSE "prune_err",
     called |-> TRUE,
     hashes |-> [i \in DOMAIN fetch.transactions |-> HashOf(fetch.transactions[i])]]

\* Mutant: the hash of the first returned transaction is left out.
PruneStep_SkipsFirst(fetch, known) ==
    IF fetch.res = "ok"
    THEN [state |-> IF known = "ok" THEN "ok" ELSE "prune_err",
          called |-> TRUE,
          hashes |-> [i \in 1 .. (Len(fetch.transactions) - 1) |->
                         HashOf(fetch.transactions[i + 1])]]
    ELSE [state |-> "fetch_err", called |-> FALSE, hashes |-> <<>>]

\* Lines 204-221: the prune future's step once remote_body has resolved.
PruneStep(fetch, known) ==
    IF fetch.res = "ok"
    THEN [state |-> IF known = "ok" THEN "ok" ELSE "prune_err",
          called |-> TRUE,
          hashes |-> [i \in DOMAIN fetch.transactions |-> HashOf(fetch.transactions[i])]]
    ELSE [state |-> "fetch_err", called |-> FALSE, hashes |-> <<>>]

\* Mutant: the revalidation pass runs whatever the scheduler answered.
RevalidateFuture_Always(is_revalidation_required) == "pending"

\* Line 238-247: the future revalidate() returns for the scheduler's answer.
RevalidateFuture(is_revalidation_required) ==
    IF is_revalidation_required THEN "pending" ELSE "skip"

\* Mutant: the status is cleared only when revalidate_ready succeeded.
StatusAfterRevalidation_OnSuccess(self, result) ==
    IF result = "ok" THEN Clear(self) ELSE self

\* Mutant: the completion handler leaves the status as it is.
StatusAfterRevalidation_Kept(self, result) == self

\* Lines 243-244: map(move |_| revalidation_status.lock().clear()) runs for
\* either result of revalidate_ready.
StatusAfterRevalidation(self, result) == Clear(self)

\* Mutant: try_join, which is ready as soon as one of the two has failed.
JoinReady_TryJoin(prune, reval) ==
    \/ prune \in {"fetch_err", "prune_err"}
    \/ reval = "err"
    \/ (prune # "pending" /\ reval # "pending")

\* Mutant: select, which is ready as soon as one of the two has completed.
JoinReady_Select(prune, reval) == prune # "pending" \/ reval \in {"ok", "err"}

\* Lines 289-292: join(prune_future, revalidate_future) is ready when both are.
JoinReady(prune, reval) == prune # "pending" /\ reval # "pending"

\* Line 292: .map(|_| ())
JoinOutput(prune, reval) == "unit"

\* Mutant: the guard taken for is_required lives until the pass has completed.
HolderAfterIsRequired_HeldAcross(slot, is_revalidation_required) ==
    IF is_revalidation_required THEN slot ELSE 0

\* Lines 233-237: the guard returned by lock() is a temporary of the statement
\* and is dropped at its end, before the future is built.
HolderAfterIsRequired(slot, is_revalidation_required) == 0

\* Lines 244 and 270: lock().clear() drops its guard at the end of the statement.
HolderAfterClear(slot) == 0

\* Mutant: the scheduler's answer is written to the status when the task runs,
\* not when revalidate() builds its future.
StatusAtReturn_Deferred(self, r) == self

\* Lines 233-237: is_required has run, and has written the status, when
\* revalidate() returns its future.
StatusAtReturn(self, r) == r.status

\* Line 269: maintain() asks the queue for its status, under the queue's own
\* lock, and holds nothing when it has the answer.  What the call has then made
\* of the queue, and the call in progress, for the call number `round` of a pair
\* whose first call left `first`.
LightEntered(id, retracted, round, first) ==
    [pool |-> SubmitAt(pool, LightResubmitted(retracted), TRUE, "ok"),
     task |-> [LightSlotIdle EXCEPT !.pc = "entered", !.id = id, !.retracted = retracted,
                                    !.round = round, !.first = first,
                                    !.empty = PoolIsEmpty(pool)]]

\* Lines 269-295 after the queue has answered: what the rest of maintain(), up
\* to the boxed future it returns, makes of the status and its mutex, and the
\* task it returns, for the call in progress `call`.
LightStart(slot, call) ==
    LET header == ClientHeader(call.id)
        r == IsRequired(status, header.number, periods.time, periods.block, now)
        after == StatusAtReturn(status, r)
    IN  IF call.empty
        THEN [locks |-> TRUE,
              status |-> Clear(status),
              mutex |-> [holder |-> HolderAfterClear(slot), writer |-> 0],
              task |-> [call EXCEPT !.pc = "done", !.out = "unit",
                                    !.cleared = <<status.tag, mutex.writer>>]]
        ELSE IF ~HeaderResolved(header)
        THEN [locks |-> FALSE,
              status |-> status,
              mutex |-> mutex,
              task |-> [call EXCEPT !.pc = "done", !.header = header.res, !.out = "unit",
                                    !.calls.header = 1]]
        ELSE [locks |-> TRUE,
              status |-> after,
              mutex |-> [holder |-> HolderAfterIsRequired(slot, r.ret),
                         writer |-> IF after # status THEN slot ELSE mutex.writer],
              task |-> [call EXCEPT !.pc = "running",
                                    !.header = header.res, !.number = header.number,
                                    !.prune = "pending",
                                    !.required = r.ret,
                                    !.is_required_calls = 1,
                                    !.reval = RevalidateFuture(r.ret),
                                    !.reval_at = IF RevalidateFuture(r.ret) = "pending"
                                                 THEN Some(call.id) ELSE None,
                                    !.calls = [header |-> 1, remote_body |-> 1,
                                               prune_known |-> 0,
                                               revalidate_ready |->
                                                  IF RevalidateFuture(r.ret) = "pending"
                                                  THEN 1 ELSE 0]]]

\* maintain() is called and reads the queue's status (line 269).
LightEnter(slot, id, retracted, round, first) ==
    /\ LET entered == LightEntered(id, retracted, round, first)
       IN  /\ pool' = entered.pool
           /\ light' = [light EXCEPT ![slot] = entered.task]
    /\ UNCHANGED <<status, now, periods, mutex, obs, full>>

\* maintain() goes on from the queue's answer and returns its task: the status
\* is cleared (270), or the header is looked up, the remote body requested and
\* is_required called (273-287).
LightProceed(slot) ==
    /\ light[slot].pc = "entered"
    /\ LET start == LightStart(slot, light[slot])
       IN  /\ start.locks => mutex.holder = 0
           /\ status' = start.status
           /\ mutex' = start.mutex
           /\ light' = [light EXCEPT ![slot] = start.task]
    /\ UNCHANGED <<pool, now, periods, obs, full>>

\* A new-best-block notification reaches the Light maintainer.
LightMaintain(slot, id, retracted) ==
    /\ light[slot].pc = "idle"
    /\ LightEnter(slot, id, retracted, 1, NoFirst)

\* The caller invokes maintain once more for the same block, right after the
\* task of the first call has completed.
LightAgain(slot) ==
    /\ light[slot].pc = "done"
    /\ light[slot].round = 1
    /\ LightEnter(slot, light[slot].id, <<>>, 2,
                  [prune |-> light[slot].prune,
                   transactions |-> light[slot].transactions])

LightFinish(l) ==
    IF JoinReady(l.prune, l.reval)
    THEN [l EXCEPT !.pc = "done", !.out = JoinOutput(l.prune, l.reval)]
    ELSE l

\* The prune future completes: remote_body resolved, prune_known called on success.
LightPruneDone(slot, fetch, known) ==
    /\ light[slot].pc = "running"
    /\ light[slot].prune = "pending"
    /\ fetch.res = "err" => known = "ok"
    /\ LET step == PruneStep(fetch, known)
           attempt == IF step.called THEN 1 ELSE 0
           again == AttemptsLeft(IF step.state = "ok" THEN "ok" ELSE "err",
                                 light[slot].calls.remote_body) > 0
       IN  /\ pool' = IF step.called THEN PruneKnown(pool, step.hashes, known) ELSE pool
           /\ light' = [light EXCEPT ![slot] =
                  IF again
                  THEN [@ EXCEPT !.calls.remote_body = @ + 1,
                                 !.calls.prune_known = @ + attempt]
                  ELSE LightFinish([@ EXCEPT
                           !.prune = step.state,
                           !.fetch = fetch.res,
                           !.transactions = fetch.transactions,
                           !.hashes = step.hashes,
                           !.known_at = IF step.called THEN Some(light[slot].id) ELSE None,
                           !.calls.prune_known = @ + attempt,
                           !.changed = @ \/ (light[slot].round = 2 /\ pool' # pool)])]
    /\ UNCHANGED <<status, now, periods, mutex, obs, full>>

\* Lines 241-243: revalidate_ready resolves, having removed what it found
\* invalid inside the queue; the status is not touched yet.
LightRevalResolve(slot, invalid, result) ==
    /\ light[slot].pc = "running"
    /\ light[slot].reval = "pending"
    /\ light[slot].resolved = "none"
    /\ result = "err" => invalid = {}
    /\ pool' = RevalidateReady(pool, invalid, result)
    /\ light' = [light EXCEPT ![slot] =
           IF AttemptsLeft(result, light[slot].calls.revalidate_ready) > 0
           THEN [@ EXCEPT !.calls.revalidate_ready = @ + 1]
           ELSE [@ EXCEPT !.resolved = result,
                          !.changed = @ \/ (light[slot].round = 2 /\ pool' # pool)]]
    /\ UNCHANGED <<status, now, periods, mutex, obs, full>>

\* Line 244: the handler mapped after revalidate_ready takes the status's mutex
\* and clears the status; the revalidate future is complete.
LightRevalDone(slot) ==
    /\ light[slot].pc = "running"
    /\ light[slot].reval = "pending"
    /\ light[slot].resolved # "none"
    /\ mutex.holder = 0
    /\ status' = StatusAfterRevalidation(status, light[slot].resolved)
    /\ mutex' = [holder |-> HolderAfterClear(slot), writer |-> 0]
    /\ light' = [light EXCEPT ![slot] =
           LightFinish([@ EXCEPT
               !.reval = light[slot].resolved,
               !.cleared = <<status.tag, mutex.writer>>])]
    /\ UNCHANGED <<pool, now, periods, obs, full>>

\* The caller is done with the completed task.
LightReturn(slot) ==
    /\ light[slot].pc = "done"
    /\ light' = [light EXCEPT ![slot] = LightSlotIdle]
    /\ UNCHANGED <<pool, status, now, periods, mutex, obs, full>>

\* The caller drops the returned task before it has completed: its futures are
\* never polled again.  A task is not dropped in the middle of a poll, between
\* the resolution of revalidate_ready and the handler mapped after it; once the
\* handler has run and the prune future still waits, it can be dropped.
LightDrop(slot) ==
    /\ light[slot].pc = "running"
    /\ light[slot].reval = "pending" => light[slot].resolved = "none"
    /\ light' = [light EXCEPT ![slot] = LightSlotIdle]
    /\ UNCHANGED <<pool, status, now, periods, mutex, obs, full>>

\* A user submits a transaction, which the queue accepts as ready.
Submit(tx) ==
    /\ pool[tx] = "none"
    /\ pool' = [pool EXCEPT ![tx] = "ready"]
    /\ UNCHANGED <<status, now, periods, mutex, obs, full, light>>

\* Time passes.
Tick ==
    /\ now < MaxTime
    /\ now' = now + 1
    /\ UNCHANGED <<pool, status, periods, mutex, obs, full, light>>

----------------------------------------------------------------------------
(* The revalidation status driven directly, as the unit test drives it. *)

SchedIsRequired(block, time_period, block_period) ==
    LET r == IsRequired(status, block, time_period, block_period, now)
        arming == status.tag = "NotScheduled"
        only == IsSome(time_period) /\ block_period = None
        only_block == time_period = None /\ IsSome(block_period)
    IN  /\ status' = r.status
        /\ obs' = [op |-> "is_required", block |-> block,
                   time_period |-> time_period, block_period |-> block_period,
                   pre |-> status, at |-> now, ret |-> r.ret,
                   fires |-> IF arming THEN 0
                             ELSE IF r.ret /\ obs.fires < 2 THEN obs.fires + 1
                             ELSE obs.fires,
                   time_only |-> IF arming THEN only ELSE obs.time_only /\ only,
                   armed |-> IF arming
                             THEN [block |-> block, block_period |-> block_period]
                             ELSE obs.armed,
                   block_only |-> IF arming THEN only_block
                                  ELSE /\ obs.block_only /\ only_block
                                       /\ block_period = obs.armed.block_period]
        /\ UNCHANGED <<pool, now, periods, mutex, full, light>>

SchedClear ==
    /\ status' = Clear(status)
    /\ obs' = [obs EXCEPT !.op = "clear", !.pre = status, !.at = now, !.ret = FALSE]
    /\ UNCHANGED <<pool, now, periods, mutex, full, light>>

----------------------------------------------------------------------------
(* Specifications *)

ObsNone ==
    [op |-> "none", block |-> 0, time_period |-> None, block_period |-> None,
     pre |-> NotScheduled, at |-> 0, ret |-> FALSE, fires |-> 0, time_only |-> FALSE,
     armed |-> [block |-> 0, block_period |-> None], block_only |-> FALSE]

LightIdle == [slot \in Slots |-> LightSlotIdle]
LightOff == [slot \in Slots |-> [LightSlotIdle EXCEPT !.pc = "off"]]
FullOff == [FullIdle([tx \in Txs |-> "none"]) EXCEPT !.pc = "off"]
NoPeriods == [time |-> None, block |-> None]

\* The Full maintainer over any queue, fed notifications one at a time.
InitFull ==
    /\ pool \in PoolStates
    /\ status = NotScheduled
    /\ now = 0
    /\ periods = NoPeriods
    /\ mutex = MutexFree
    /\ obs = ObsNone
    /\ full = FullIdle(pool)
    /\ light = LightOff

\* A new-best-block notification reaches the Full maintainer.
FullNotify ==
    /\ full.pc = "idle"
    /\ \E id \in Hashes, retracted \in SeqsUpTo(Hashes, MaxRetracted) :
          FullMaintain(id, retracted)

NextFull ==
    \/ FullNotify
    \/ \E result \in Results : FullResubmit(result)
    \/ \E result \in Results : FullPrune(result)
    \/ FullReturn

SpecFull == InitFull /\ [][NextFull]_vars

\* The Light maintainer over any queue with at most one future transaction and
\* any configured periods, fed notifications one at a time.
InitLight ==
    /\ pool \in PoolStates
    /\ FutureCount(pool) <= 1
    /\ status = NotScheduled
    /\ now = 0
    /\ periods \in [time : PeriodOpts, block : PeriodOpts]
    /\ mutex = MutexFree
    /\ obs = ObsNone
    /\ full = FullOff
    /\ light = LightIdle

\* Time passes between two calls: the clock is read by is_required alone, inside
\* maintain, so the time that passes while a task runs counts at the next call.
TickBetweenCalls ==
    /\ light[1].pc = "idle"
    /\ Tick

NextLight ==
    \/ \E id \in BlockIds : LightMaintain(1, id, <<>>)
    \/ LightProceed(1)
    \/ \E fetch \in RemoteResults, known \in Results : LightPruneDone(1, fetch, known)
    \/ \E invalid \in SUBSET Ready(pool), result \in Results :
          LightRevalResolve(1, invalid, result)
    \/ LightRevalDone(1)
    \/ LightReturn(1)
    \/ TickBetweenCalls

SpecLight == InitLight /\ [][NextLight]_vars

\* The revalidation status alone.
InitSched ==
    /\ pool = EmptyPool
    /\ status = NotScheduled
    /\ now = 0
    /\ periods = NoPeriods
    /\ mutex = MutexFree
    /\ obs = ObsNone
    /\ full = FullOff
    /\ light = LightOff

NextSched ==
    \/ \E block \in Numbers, time_period \in PeriodOpts, block_period \in PeriodOpts :
          SchedIsRequired(block, time_period, block_period)
    \/ SchedClear
    \/ Tick

SpecSched == InitSched /\ [][NextSched]_vars

\* A node wired with one of the two maintainers, whose returned tasks are polled
\* to completion and whose collaborator calls return.  The queue starts with any
\* set of ready transactions; the clock stands still, so a time period of zero
\* is due at once and any other never.
InitLive ==
    /\ pool \in [Txs -> {"none", "ready"}]
    /\ status = NotScheduled
    /\ now = 0
    /\ mutex = MutexFree
    /\ obs = ObsNone
    /\ \/ /\ periods = NoPeriods
          /\ full = FullIdle(pool)
          /\ light = LightOff
       \/ /\ periods \in [time : PeriodOpts, block : PeriodOpts]
          /\ full = FullOff
          /\ light = LightIdle

\* A notification to the Full maintainer with at most one retracted block.
FullNotifyLive ==
    /\ full.pc = "idle"
    /\ \E id \in Hashes, retracted \in SeqsUpTo(Hashes, 1) :
          FullMaintain(id, retracted)

NextLive ==
    \/ FullNotifyLive
    \/ \E result \in Results : FullResubmit(result)
    \/ \E result \in Results : FullPrune(result)
    \/ FullReturn
    \/ \E id \in BlockIds : LightMaintain(1, id, <<>>)
    \/ LightProceed(1)
    \/ \E fetch \in RemoteResults, known \in Results : LightPruneDone(1, fetch, known)
    \/ \E invalid \in SUBSET Ready(pool), result \in Results :
          LightRevalResolve(1, invalid, result)
    \/ LightRevalDone(1)
    \/ LightReturn(1)

Fairness ==
    /\ WF_vars(\E result \in Results : FullResubmit(result))
    /\ WF_vars(\E result \in Results : FullPrune(result))
    /\ WF_vars(\E fetch \in RemoteResults, known \in Results : LightPruneDone(1, fetch, known))
    /\ WF_vars(LightProceed(1))
    /\ WF_vars(\E invalid \in SUBSET Ready(pool), result \in Results :
                  LightRevalResolve(1, invalid, result))
    /\ WF_vars(LightRevalDone(1))

SpecLive == InitLive /\ [][NextLive]_vars /\ Fairness

\* A node wired with one of the two maintainers, notified of a block without
\* retracted blocks and then of the same block once more; time may pass between
\* the two calls.  The Full maintainer starts over any queue, the Light
\* maintainer over any set of ready transactions.
InitTwice ==
    /\ status = NotScheduled
    /\ now = 0
    /\ mutex = MutexFree
    /\ obs = ObsNone
    /\ \/ /\ pool \in PoolStates
          /\ periods = NoPeriods
          /\ full = FullIdle(pool)
          /\ light = LightOff
       \/ /\ pool \in [Txs -> {"none", "ready"}]
          /\ periods \in [time : PeriodOpts, block : PeriodOpts]
          /\ full = FullOff
          /\ light = LightIdle

FullNotifyEmpty ==
    /\ full.pc = "idle"
    /\ \E id \in Hashes : FullMaintain(id, <<>>)

TickBetween ==
    /\ light[1].pc = "done"
    /\ light[1].round = 1
    /\ Tick

\* The body fetched for a block is the body fetched for it before.
SameBody(fetch) ==
    (light[1].round = 2 /\ light[1].first.prune \in {"ok", "prune_err"}
        /\ fetch.res = "ok")
        => fetch.transactions = light[1].first.transactions

NextTwice ==
    \/ FullNotifyEmpty
    \/ \E result \in Results : FullResubmit(result)
    \/ \E result \in Results : FullPrune(result)
    \/ FullAgain
    \/ \E id \in BlockIds : LightMaintain(1, id, <<>>)
    \/ LightProceed(1)
    \/ \E fetch \in RemoteResults, known \in Results :
          SameBody(fetch) /\ LightPruneDone(1, fetch, known)
    \/ \E invalid \in SUBSET Ready(pool), result \in Results :
          LightRevalResolve(1, invalid, result)
    \/ LightRevalDone(1)
    \/ LightAgain(1)
    \/ TickBetween

SpecTwice == InitTwice /\ [][NextTwice]_vars

\* The Light maintainer notified without waiting for the tasks of earlier
\* notifications, from several threads: a call that has read the queue, and a
\* revalidate_ready call that has resolved, may be overtaken by the steps of
\* other calls and tasks before it takes the mutex of the status.  A user
\* submits transaction 1 again to the emptied queue.  A call takes the first
\* free task slot and is for the latest block; the revalidation is due at every
\* block; prune_known succeeds.
InitOverlap ==
    /\ pool = [tx \in Txs |-> "ready"]
    /\ status = NotScheduled
    /\ now = 0
    /\ periods = [time |-> None, block |-> Some(0)]
    /\ mutex = MutexFree
    /\ obs = ObsNone
    /\ full = FullOff
    /\ light = LightIdle

FreeSlot(slot) ==
    /\ light[slot].pc = "idle"
    /\ \A other \in Slots : other < slot => light[other].pc # "idle"

\* What remote_body resolves to here: Err, or the body with every extrinsic.
OverlapResults ==
    {fetch \in RemoteResults :
        fetch.res = "ok" => fetch.transactions = BodyFrom(MaxTx + 1, 0)}

NextOverlap ==
    \/ \E slot \in Slots : FreeSlot(slot) /\ LightMaintain(slot, MaxBlockNum, <<>>)
    \/ \E slot \in Slots : LightProceed(slot)
    \/ \E slot \in Slots, fetch \in OverlapResults :
          LightPruneDone(slot, fetch, "ok")
    \/ \E slot \in Slots, invalid \in {{}, Ready(pool)}, result \in Results :
          LightRevalResolve(slot, invalid, result)
    \/ \E slot \in Slots : LightRevalDone(slot)
    \/ \E slot \in Slots : LightReturn(slot)
    \/ PoolIsEmpty(pool) /\ Submit(1)

SpecOverlap == InitOverlap /\ [][NextOverlap]_vars

\* The Light maintainer notified of block after block, one call at a time; the
\* caller keeps notifying and polls the tasks it keeps, and may drop a task.
InitDrop ==
    /\ pool \in [Txs -> {"none", "ready"}]
    /\ status = NotScheduled
    /\ now = 0
    /\ periods \in [time : PeriodOpts, block : PeriodOpts]
    /\ mutex = MutexFree
    /\ obs = ObsNone
    /\ full = FullOff
    /\ light = LightIdle

NextDrop ==
    \/ \E id \in Numbers : LightMaintain(1, id, <<>>)
    \/ LightProceed(1)
    \/ \E fetch \in RemoteResults, known \in Results : LightPruneDone(1, fetch, known)
    \/ \E invalid \in SUBSET Ready(pool), result \in Results :
          LightRevalResolve(1, invalid, result)
    \/ LightRevalDone(1)
    \/ LightReturn(1)
    \/ LightDrop(1)

FairnessDrop ==
    /\ WF_vars(\E id \in Numbers : LightMaintain(1, id, <<>>))
    /\ WF_vars(\E fetch \in RemoteResults, known \in Results : LightPruneDone(1, fetch, known))
    /\ WF_vars(LightProceed(1))
    /\ WF_vars(\E invalid \in SUBSET Ready(pool), result \in Results :
                  LightRevalResolve(1, invalid, result))
    /\ WF_vars(LightRevalDone(1))
    /\ WF_vars(LightReturn(1))

SpecDrop == InitDrop /\ [][NextDrop]_vars /\ FairnessDrop

\* The Light maintainer notified of a reorganisation: calls made one at a time,
\* each with at most one retracted block; revalidation is scheduled by block
\* number only.
InitReorg ==
    /\ pool \in [Txs -> {"none", "ready"}]
    /\ status = NotScheduled
    /\ now = 0
    /\ periods \in [time : {None}, block : PeriodOpts]
    /\ mutex = MutexFree
    /\ obs = ObsNone
    /\ full = FullOff
    /\ light = LightIdle

ReorgSets == SeqsUpTo(Hashes, 1)

NextReorg ==
    \/ \E id \in BlockIds, retracted \in ReorgSets : LightMaintain(1, id, retracted)
    \/ LightProceed(1)
    \/ \E fetch \in RemoteResults, known \in Results : LightPruneDone(1, fetch, known)
    \/ \E invalid \in SUBSET Ready(pool), result \in Results :
          LightRevalResolve(1, invalid, result)
    \/ LightRevalDone(1)
    \/ LightReturn(1)

SpecReorg == InitReorg /\ [][NextReorg]_vars

\* The Light maintainer with a block period set, notified of ever higher blocks
\* from block 0 on, one call at a time, every task polled to completion.  The
\* client has every header, the queue never runs empty, the clock stands still.
InitCycle ==
    /\ pool \in [Txs -> {"none", "ready"}]
    /\ ~PoolIsEmpty(pool)
    /\ status = NotScheduled
    /\ now = 0
    /\ periods \in [time : PeriodOpts, block : PeriodOpts \ {None}]
    /\ mutex = MutexFree
    /\ obs = ObsNone
    /\ full = FullOff
    /\ light = LightIdle

\* The next notification: for block 0 at first, then for a block above the one
\* of the call before, once that call's task has completed.
CycleNotify ==
    \E id \in Numbers :
        /\ \/ light[1].pc = "idle" /\ id = 0
           \/ light[1].pc = "done" /\ id > light[1].id
        /\ LightEnter(1, id, <<>>, 1, NoFirst)

CyclePrune ==
    \E fetch \in RemoteResults, known \in Results :
        LightPruneDone(1, fetch, known) /\ ~PoolIsEmpty(pool')

CycleRevalidate ==
    \E invalid \in SUBSET Ready(pool), result \in Results :
        LightRevalResolve(1, invalid, result) /\ ~PoolIsEmpty(pool')

NextCycle ==
    \/ CycleNotify
    \/ LightProceed(1)
    \/ CyclePrune
    \/ CycleRevalidate
    \/ LightRevalDone(1)

FairnessCycle ==
    /\ WF_vars(CycleNotify)
    /\ WF_vars(LightProceed(1))
    /\ WF_vars(CyclePrune)
    /\ WF_vars(CycleRevalidate)
    /\ WF_vars(LightRevalDone(1))

SpecCycle == InitCycle /\ [][NextCycle]_vars /\ FairnessCycle

----------------------------------------------------------------------------
(* Claims *)

BodySet(hash) == {tx \in Txs : InBody(tx, hash)}
Completed == {"ok", "err"}

\* C1 as stated: after maintain(B, []) on a block B the client holds, no
\* transaction of B's body is queued and every other queued transaction is as it
\* was before the call.
C1_Original ==
    (full.pc = "done" /\ full.retracted = <<>> /\ full.id \in KnownHashes)
        => /\ \A tx \in BodySet(full.id) : pool[tx] = "none"
           /\ \A tx \in Txs \ BodySet(full.id) : pool[tx] = full.pool0[tx]

\* C1 (amended): after maintain(B, []) has completed, when the prune call did
\* not fail no transaction of B's body is queued and every other transaction is
\* as it was before the call (one ready transaction T in B leaves ready 0,
\* future 0); when B's body could not be read or the prune call failed, the
\* queue is as it was before the call.
C1_PruneResult ==
    (full.pc = "done" /\ full.retracted = <<>>)
        => /\ (full.id \in KnownHashes /\ full.prune # "err")
                => /\ \A tx \in BodySet(full.id) : pool[tx] = "none"
                   /\ \A tx \in Txs \ BodySet(full.id) : pool[tx] = full.pool0[tx]
           /\ (full.prune = "ok" /\ Queued(full.pool0) \subseteq BodySet(full.id))
                => (ReadyCount(pool) = 0 /\ FutureCount(pool) = 0)
           /\ (full.prune = "err" \/ full.fetch \in {"skipped", "none", "err"})
                => pool = full.pool0

\* C1: T1 ready and in B, T2 future and not in B; T1 is pruned, T2 stays.
C1_Witness ==
    /\ full.pc = "done" /\ full.retracted = <<>> /\ full.prune = "ok"
    /\ full.id = 1
    /\ full.pool0[1] = "ready" /\ full.pool0[2] = "future"
    /\ pool[1] = "none" /\ pool[2] = "future"

\* The user-signed transactions of the retracted blocks the client can read.
RetractedSigned(retracted) ==
    {tx \in Txs : TRUE \in IsSignedOf(tx)
                  /\ \E i \in DOMAIN retracted : InBody(tx, retracted[i])}

\* C2 as stated: after maintain(B', R) with R not empty, every user-signed
\* transaction of a block of R that is not in B' is queued.
C2_Original ==
    (full.pc = "done" /\ full.retracted # <<>>)
        => \A tx \in RetractedSigned(full.retracted) :
              ~InBody(tx, full.id) => pool[tx] # "none"

\* C2 (amended): after maintain(B', R) with R not empty has completed and the
\* submit_at call succeeded, every user-signed transaction of a readable block of
\* R that is not in B' is queued, and is ready when it was not queued before
\* (an empty queue, R = [B] with T in B, T not in B': ready 1, future 0); when
\* submit_at failed none of them was added.
C2_Resubmitted ==
    (full.pc = "done" /\ full.retracted # <<>>)
        => /\ full.resubmit = "ok"
                => \A tx \in RetractedSigned(full.retracted) :
                      ~InBody(tx, full.id)
                          => /\ pool[tx] # "none"
                             /\ full.pool0[tx] = "none" => pool[tx] = "ready"
           /\ full.resubmit = "err"
                => \A tx \in Txs : full.pool0[tx] = "none" => pool[tx] = "none"

\* C2: empty queue, R = [B] with T1 in B, B' empty: T1 is ready again.
C2_Witness ==
    /\ full.pc = "done" /\ full.retracted = <<1>> /\ full.id = 0
    /\ PoolIsEmpty(full.pool0) /\ full.resubmit = "ok"
    /\ ReadyCount(pool) = 1 /\ FutureCount(pool) = 0 /\ pool[1] = "ready"

\* C3: the task returned by maintain, Full or Light, never yields anything but
\* the unit value, and once returned it completes, whatever the collaborators'
\* results.
C3_NeverFails ==
    /\ [](/\ full.out \in {"none", "unit"}
          /\ \A slot \in Slots : light[slot].out \in {"none", "unit"})
    /\ (full.pc = "running") ~> (full.pc = "done" /\ full.out = "unit")
    /\ \A slot \in Slots :
          (light[slot].pc = "running") ~> (light[slot].pc = "done" /\ light[slot].out = "unit")

\* C3: a Full call whose submit_at and prune both failed completed with unit.
C3_Witness ==
    /\ full.pc = "done" /\ full.out = "unit"
    /\ full.resubmit = "err" /\ full.prune = "err"
    /\ full.retracted # <<>>

\* C4 as stated: whenever the prune call of a maintain call has been issued, the
\* resubmission of that call has completed.
C4_Original ==
    full.prune # "none" => full.resubmit \in Completed

\* C4 (amended): the prune call is issued in maintain itself, before the
\* resubmission has run; the future it returns is run, and takes effect on the
\* queue, only after the resubmission has completed, so the pruning applies to a
\* queue that holds the transactions revived from the retracted blocks.
C4_PruneAfterResubmit ==
    /\ full.prune \in Completed => full.resubmit \in Completed
    /\ (full.pc = "running" /\ full.resubmit = "pending")
          => (pool = full.pool0 /\ full.prune \in {"none", "pending"})
    /\ (full.pc = "done" /\ full.prune = "ok" /\ full.resubmit = "ok")
          => pool = Prune(SubmitAt(full.pool0, full.xts, TRUE, "ok"), full.extrinsics, "ok")

\* C4: T1 revived from a retracted block and in the new block is pruned again.
C4_Witness ==
    /\ full.pc = "done" /\ full.prune = "ok" /\ full.resubmit = "ok"
    /\ full.xts = <<1>> /\ full.pool0[1] = "none" /\ full.extrinsics = <<1>>
    /\ pool[1] = "none"

\* C5: in a Light maintain call that reached the join, the revalidation pass is
\* started exactly when the scheduler required it and the prune is always
\* started, whatever the other's result; the task completes exactly when both
\* the prune future and the revalidate future have completed.
C5_Independent ==
    \A slot \in Slots :
        LET l == light[slot]
        IN  l.header = "ok"
              => /\ l.prune \in {"pending", "ok", "fetch_err", "prune_err"}
                 /\ l.required <=> l.reval \in {"pending", "ok", "err"}
                 /\ ~l.required <=> l.reval = "skip"
                 /\ l.pc = "done" <=> (l.prune # "pending" /\ l.reval # "pending")
                 /\ l.pc = "done" => l.out = "unit"

\* C5: the remote body fetch failed and the revalidation pass still ran.
C5_Witness ==
    /\ light[1].pc = "done" /\ light[1].header = "ok"
    /\ light[1].prune = "fetch_err" /\ light[1].reval = "ok"
    /\ ReadyCount(pool) = 0

\* C6: is_required called in NotScheduled returns false and leaves
\* Scheduled(now + time_period if given, block + block_period if given), also
\* when a period is zero.
C6_Arming ==
    (obs.op = "is_required" /\ obs.pre.tag = "NotScheduled")
        => /\ obs.ret = FALSE
           /\ status.tag = "Scheduled"
           /\ status.at_time = (IF obs.time_period = None THEN None
                                ELSE {obs.at + period : period \in obs.time_period})
           /\ status.at_block = (IF obs.block_period = None THEN None
                                 ELSE {obs.block + period : period \in obs.block_period})

\* C6: arming with both periods zero at a later time and block does not fire.
C6_Witness ==
    /\ obs.op = "is_required" /\ obs.pre.tag = "NotScheduled"
    /\ obs.time_period = Some(0) /\ obs.block_period = Some(0)
    /\ status = Scheduled(Some(obs.at), Some(obs.block))
    /\ obs.at > 0 /\ obs.block > 0

\* C7: is_required called in Scheduled(t, b) at block n returns true and moves
\* to InProgress exactly when (t is set and now >= t) or (b is set and n >= b);
\* otherwise it returns false and the state stays as it was.
C7_Firing ==
    (obs.op = "is_required" /\ obs.pre.tag = "Scheduled")
        => LET due == \/ \E t \in obs.pre.at_time : obs.at >= t
                      \/ \E b \in obs.pre.at_block : obs.block >= b
           IN  /\ obs.ret <=> due
               /\ due => status = InProgress
               /\ ~due => status = obs.pre

\* C7: the time deadline is reached exactly, the block deadline is not.
C7_Witness ==
    /\ obs.op = "is_required" /\ obs.pre.tag = "Scheduled"
    /\ obs.pre.at_time = Some(obs.at)
    /\ \E b \in obs.pre.at_block : obs.block < b
    /\ obs.ret /\ status = InProgress

\* C8: is_required called in InProgress returns false and leaves InProgress;
\* the status leaves InProgress only by clear(), which makes it NotScheduled.
C8_InProgress ==
    obs.pre.tag = "InProgress"
        => /\ obs.op = "is_required" => (obs.ret = FALSE /\ status = InProgress)
           /\ status # InProgress => (obs.op = "clear" /\ status = NotScheduled)

\* C8: a call with both periods given in InProgress.
C8_Witness ==
    /\ obs.op = "is_required" /\ obs.pre.tag = "InProgress"
    /\ IsSome(obs.time_period) /\ IsSome(obs.block_period)
    /\ status = InProgress

\* C9 as stated: is_required(b, None, None) returns false in every state.
C9_Original ==
    (obs.op = "is_required" /\ obs.time_period = None /\ obs.block_period = None)
        => obs.ret = FALSE

\* C9 (amended): is_required(b, None, None) returns false in NotScheduled, where
\* it leaves Scheduled(None, None), and in InProgress; in Scheduled it returns
\* true only when a deadline stored by an earlier call is reached.  In
\* Scheduled(None, None) every is_required call, whatever its arguments, returns
\* false and leaves the state as it is: the schedule stays disabled.
C9_Disabled ==
    obs.op = "is_required"
        => /\ (obs.time_period = None /\ obs.block_period = None
                 /\ obs.pre.tag = "NotScheduled")
                => (obs.ret = FALSE /\ status = Scheduled(None, None))
           /\ obs.pre = Scheduled(None, None)
                => (obs.ret = FALSE /\ status = obs.pre)
           /\ (obs.time_period = None /\ obs.block_period = None /\ obs.ret)
                => /\ obs.pre.tag = "Scheduled"
                   /\ \/ \E t \in obs.pre.at_time : obs.at >= t
                      \/ \E b \in obs.pre.at_block : obs.block >= b

\* C9: a late call with a time period given in Scheduled(None, None).
C9_Witness ==
    /\ obs.op = "is_required" /\ obs.pre = Scheduled(None, None)
    /\ obs.at = MaxTime /\ obs.block = MaxBlockNum
    /\ IsSome(obs.time_period)
    /\ obs.ret = FALSE /\ status = Scheduled(None, None)

\* C10: in a run of is_required(b, Some(period), None) calls from NotScheduled,
\* a call returns false while the clock is before the instant stored by the
\* arming call, the first call at or after it returns true, and no call returns
\* true after that until clear(): at most one call fires per arming.
C10_TimeOnly ==
    (obs.op = "is_required" /\ obs.time_only)
        => /\ obs.pre.tag = "NotScheduled" => ~obs.ret
           /\ obs.pre.tag = "Scheduled"
                => /\ obs.pre.at_block = None
                   /\ obs.ret <=> \E t \in obs.pre.at_time : obs.at >= t
           /\ obs.pre.tag = "InProgress" => ~obs.ret
           /\ obs.fires <= 1
           /\ status.tag = "InProgress" <=> obs.fires = 1
           /\ status.tag = "Scheduled" <=> obs.fires = 0

\* C10: a call after the one that fired, at the last clock reading.
C10_Witness ==
    /\ obs.op = "is_required" /\ obs.time_only
    /\ obs.pre.tag = "InProgress" /\ obs.fires = 1
    /\ obs.at = MaxTime /\ ~obs.ret

\* C17: a Full maintain call always issues the resubmission (submit_at at the
\* new block, as a retry); when the queue reported no ready and no future
\* transaction at the call, the new block is not fetched and prune is not
\* called, and the resubmission alone decides the queue the call leaves.
C17_EmptyQueue ==
    full.pc \in {"running", "done"}
        => /\ full.resubmit \in {"pending", "ok", "err"}
           /\ full.at = full.id /\ full.force
           /\ PoolIsEmpty(full.pool0)
                => /\ full.fetch = "skipped"
                   /\ full.prune = "none" /\ full.extrinsics = <<>>
                   /\ full.pc = "done"
                        => /\ full.resubmit \in Completed
                           /\ \A tx \in Txs :
                                 pool[tx] # "none"
                                    <=> (full.resubmit = "ok" /\ tx \in Range(full.xts))

\* C17: an empty queue, a new block with a body, a retracted block with T1: no
\* fetch, no prune, and T1 is queued by the resubmission.
C17_Witness ==
    /\ full.pc = "done" /\ PoolIsEmpty(full.pool0)
    /\ full.id = MaxTx + 1 /\ full.retracted = <<1>>
    /\ full.fetch = "skipped" /\ full.prune = "none"
    /\ full.resubmit = "ok" /\ pool[1] = "ready"

\* C18: when the new block is not found or its read fails no prune call is made,
\* and when the prune call fails nothing is pruned; in both cases the call has
\* completed with the unit value once the resubmission has, and the queue is the
\* one the resubmission left.
C18_PruneFailure ==
    /\ (full.pc \in {"running", "done"} /\ full.fetch \in {"none", "err"})
          => /\ full.prune = "none"
             /\ full.pc = "running" <=> full.resubmit = "pending"
    /\ (full.pc = "done" /\ (full.fetch \in {"none", "err"} \/ full.prune = "err"))
          => /\ full.resubmit \in Completed
             /\ full.out = "unit"
             /\ \A tx \in Txs :
                   pool[tx] = IF /\ full.resubmit = "ok"
                                 /\ full.pool0[tx] = "none"
                                 /\ tx \in Range(full.xts)
                              THEN "ready" ELSE full.pool0[tx]

\* C18: the prune call failed after T1 of a retracted block was resubmitted.
C18_Witness ==
    /\ full.pc = "done" /\ full.prune = "err" /\ full.resubmit = "ok"
    /\ full.xts = <<1>> /\ full.extrinsics # <<>>
    /\ full.pool0[1] = "none" /\ pool[1] = "ready"
    /\ full.out = "unit"

\* The members of a set of extrinsics in the order of a block body.
RECURSIVE Ascending(_)
Ascending(S) ==
    IF S = {} THEN <<>>
    ELSE LET least == CHOOSE x \in S : \A y \in S : x <= y
         IN  <<least>> \o Ascending(S \ {least})

\* The user-signed extrinsics of the blocks the client holds, block by block.
RECURSIVE SignedInOrder(_)
SignedInOrder(retracted) ==
    IF retracted = <<>> THEN <<>>
    ELSE Ascending({tx \in Extrinsics : InBody(tx, Head(retracted))
                                        /\ IsSignedOf(tx) = Some(TRUE)})
         \o SignedInOrder(Tail(retracted))

\* C19: the transactions handed to submit_at are the user-signed extrinsics of
\* the retracted blocks that could be read, block by block in the order of the
\* retracted set; none of them is unsigned or of unknown signedness; the call is
\* made at the new block with the retry flag set.
C19_Resubmitted ==
    full.pc \in {"running", "done"}
        => /\ full.xts = SignedInOrder(full.retracted)
           /\ \A i \in DOMAIN full.xts : IsSignedOf(full.xts[i]) = Some(TRUE)
           /\ full.at = full.id
           /\ full.force = TRUE

\* C19: the block with every extrinsic, then the block with T1: T1 and T3 of the
\* first, then T1 of the second; the unsigned T2 and the undeterminable 0 are
\* left out.
C19_Witness ==
    /\ full.pc = "running" /\ full.retracted = <<MaxTx + 1, 1>>
    /\ full.xts = <<1, 3, 1>>
    /\ IsSignedOf(2) = Some(FALSE) /\ IsSignedOf(0) = None
    /\ InBody(2, MaxTx + 1) /\ InBody(0, MaxTx + 1)

\* C20: a retracted block that cannot be read contributes nothing and every
\* user-signed extrinsic of every retracted block that can be read is handed to
\* submit_at; when submit_at fails the call still yields the unit value, and the
\* prune call is made and takes effect as it would have otherwise.
C20_PartialFailure ==
    full.pc \in {"running", "done"}
        => /\ \A i \in DOMAIN full.retracted : \A tx \in Extrinsics :
                 (InBody(tx, full.retracted[i]) /\ IsSignedOf(tx) = Some(TRUE))
                    => tx \in Range(full.xts)
           /\ \A tx \in Range(full.xts) :
                 \E i \in DOMAIN full.retracted : InBody(tx, full.retracted[i])
           /\ full.prune # "none"
                 <=> (~PoolIsEmpty(full.pool0) /\ full.id \in KnownHashes)
           /\ full.out \in {"none", "unit"}
           /\ (full.pc = "done" /\ full.resubmit = "err")
                 => /\ full.out = "unit"
                    /\ full.prune \in {"none", "ok", "err"}
                    /\ \A tx \in Txs :
                          pool[tx] = IF full.prune = "ok" /\ InBody(tx, full.id)
                                     THEN "none" ELSE full.pool0[tx]

\* C20: the first retracted block cannot be read, the second holds T1; the
\* submission failed and the new block's T3 was pruned all the same.
C20_Witness ==
    /\ full.pc = "done" /\ full.retracted = <<BrokenHash, 1>>
    /\ full.xts = <<1>> /\ full.resubmit = "err"
    /\ full.id = 3 /\ full.prune = "ok"
    /\ full.pool0[3] = "ready" /\ pool[3] = "none"

\* C16 as stated: a second maintain(B, []) right after the first has completed
\* leaves the queue as the first left it, for the Full and for the Light
\* maintainer.
C16_Original ==
    /\ (full.pc = "done" /\ full.round = 2) => pool = full.pool0
    /\ \A slot \in Slots :
          (light[slot].pc = "done" /\ light[slot].round = 2) => ~light[slot].changed

\* C16 (amended): a second maintain(B, []) right after the first has completed
\* leaves the queue as the first left it, unless it makes up for a prune that
\* failed in the first call or, for the Light maintainer, runs a revalidation
\* pass because a deadline armed earlier is reached.
C16_Idempotent ==
    /\ (full.pc = "done" /\ full.round = 2)
          => /\ full.first # "err" => pool = full.pool0
             /\ full.prune # "ok" => pool = full.pool0
    /\ \A slot \in Slots :
          LET l == light[slot]
          IN  (l.pc = "done" /\ l.round = 2 /\ l.changed)
                 => \/ l.required /\ l.reval = "ok"
                    \/ l.prune = "ok" /\ l.first.prune # "ok"

\* C16: the first Light call pruned T1, the second fetched the same body, ran
\* no revalidation and left the queue, which still holds a transaction, as it
\* was.
C16_Witness ==
    /\ light[1].pc = "done" /\ light[1].round = 2
    /\ light[1].first.prune = "ok" /\ light[1].first.transactions = <<1>>
    /\ light[1].prune = "ok" /\ light[1].transactions = <<1>>
    /\ light[1].reval = "skip" /\ ~light[1].changed
    /\ pool[1] = "none" /\ pool[2] = "ready"

\* The block deadline of the schedule armed by a block-only call: s + n.
ArmedDeadline == {obs.armed.block + period : period \in obs.armed.block_period}

\* C11 as stated: in a run of is_required(b, None, Some(n)) calls a call returns
\* true exactly when b >= s + n, s being the block of the call that armed the
\* schedule.
C11_Original ==
    (obs.op = "is_required" /\ obs.block_only)
        => (obs.ret <=> \E deadline \in ArmedDeadline : obs.block >= deadline)

\* C11 (amended): in a run of is_required(b, None, Some(n)) calls from
\* NotScheduled, whatever the clock, the arming call (block s) returns false
\* even when n = 0; a call in Scheduled returns true exactly when b >= s + n; a
\* call after the one that returned true returns false until clear().  So no
\* call with b < s + n returns true and at most one call per arming does.
C11_BlockOnly ==
    (obs.op = "is_required" /\ obs.block_only)
        => /\ obs.pre.tag = "NotScheduled"
                => (~obs.ret /\ obs.armed.block = obs.block)
           /\ obs.pre.tag = "Scheduled"
                => /\ obs.pre.at_time = None
                   /\ obs.ret <=> \E deadline \in ArmedDeadline : obs.block >= deadline
           /\ obs.pre.tag = "InProgress" => ~obs.ret
           /\ obs.ret => \E deadline \in ArmedDeadline : obs.block >= deadline
           /\ obs.fires <= 1
           /\ status.tag = "InProgress" <=> obs.fires = 1

\* C11: armed at block 1 with n = 1 and called at block 2 at the last clock
\* reading: the call returns true.
C11_Witness ==
    /\ obs.op = "is_required" /\ obs.block_only
    /\ obs.armed = [block |-> 1, block_period |-> Some(1)]
    /\ obs.pre = Scheduled(None, Some(2))
    /\ obs.block = 2 /\ obs.at = MaxTime
    /\ obs.ret /\ status = InProgress

\* A step that changes the kind of the revalidation status.
StatusStep(from, to) == status.tag = from /\ status'.tag = to

\* C12 as stated: every change of the revalidation status made by Light maintain
\* calls is NotScheduled -> Scheduled, Scheduled -> InProgress or
\* InProgress -> NotScheduled.
C12_Original ==
    [][status' # status
          => \/ StatusStep("NotScheduled", "Scheduled")
             \/ StatusStep("Scheduled", "InProgress")
             \/ StatusStep("InProgress", "NotScheduled")]_vars

\* C12 (amended): over maintain calls made one after the other, every change of
\* the revalidation status is NotScheduled -> Scheduled, Scheduled -> InProgress,
\* InProgress -> NotScheduled, or Scheduled -> NotScheduled made by a call that
\* found the queue empty; the status never goes from NotScheduled to InProgress.
C12_Cycle ==
    [][status' # status
          => \/ StatusStep("NotScheduled", "Scheduled")
             \/ StatusStep("Scheduled", "InProgress")
             \/ StatusStep("InProgress", "NotScheduled")
             \/ /\ StatusStep("Scheduled", "NotScheduled")
                /\ PoolIsEmpty(pool) /\ pool' = pool
                /\ \E slot \in Slots :
                      /\ light[slot].pc = "entered" /\ light[slot].empty
                      /\ light'[slot].pc = "done" /\ light'[slot].header = "none"]_vars

\* C12: a call that found the schedule armed and the queue empty has cleared it.
C12_Witness ==
    /\ light[1].pc = "done" /\ light[1].cleared[1] = "Scheduled"
    /\ light[1].header = "none" /\ light[1].prune = "none"
    /\ PoolIsEmpty(pool)
    /\ status = NotScheduled

\* C13: a revalidation pass that completes clears the InProgress its own
\* is_required call had set (or finds the status already reset by an empty-queue
\* call); it never clears a Scheduled or an InProgress value written by a later
\* call.
C13_Original ==
    \A slot \in Slots :
        light[slot].reval \in Completed
            => \/ light[slot].cleared = <<"InProgress", slot>>
               \/ light[slot].cleared = <<"NotScheduled", 0>>

\* C14: the mutex of the revalidation status is free between the steps of the
\* maintain tasks: a task suspended on remote_body or revalidate_ready does not
\* hold it, so the next is_required or clear() can take it.
C14_LockFree ==
    /\ mutex.holder = 0
    /\ \A slot \in Slots :
          (light[slot].prune = "pending" \/ light[slot].reval = "pending")
              => mutex.holder # slot

\* C14: while the task in slot 2 is suspended on revalidate_ready, a later call
\* found the queue empty, took the mutex and cleared the InProgress of slot 2.
C14_Witness ==
    /\ light[2].pc = "running" /\ light[2].reval = "pending"
    /\ light[1].pc = "done" /\ light[1].cleared = <<"InProgress", 2>>
    /\ status = NotScheduled /\ mutex.holder = 0

\* The status says a revalidation is in progress and no task runs one.
PassLost ==
    /\ status = InProgress
    /\ \A slot \in Slots : light[slot].reval # "pending"

\* C15: when a dropped Light task has left InProgress set, the notifications
\* that follow lead to a new revalidation pass, unless the queue empties.
C15_Original ==
    PassLost ~> (PoolIsEmpty(pool) \/ \E slot \in Slots : light[slot].reval = "pending")

\* A maintain call is made on the Light maintainer and asks the queue for its
\* status.
EnterStep(slot) == light[slot].pc \in {"idle", "done"} /\ light'[slot].pc = "entered"

\* A Light maintain call that has the answer of the queue goes on and returns
\* its task.
CallStep(slot) == light[slot].pc = "entered" /\ light'[slot].pc # "entered"

\* The revalidate_ready call of a task resolves.
ResolveStep(slot) == light[slot].resolved = "none" /\ light'[slot].resolved # "none"

\* C21: a Light maintain call that finds no ready and no future transaction in
\* the queue leaves the status NotScheduled whatever it was, looks up no header,
\* requests no remote body, calls neither prune_known nor revalidate_ready, and
\* returns a task that is already complete.
C21_EmptyQueue ==
    [][\A slot \in Slots :
          /\ EnterStep(slot)
              => /\ light'[slot].empty = PoolIsEmpty(pool)
                 /\ pool' = pool /\ status' = status
          /\ (CallStep(slot) /\ light[slot].empty)
              => /\ status' = NotScheduled
                 /\ pool' = pool
                 /\ LET l == light'[slot]
                    IN  /\ l.pc = "done" /\ l.out = "unit"
                        /\ l.header = "none"
                        /\ l.calls = NoLightCalls
                        /\ l.prune = "none" /\ l.reval = "none"
                        /\ l.known_at = None /\ l.reval_at = None]_vars

\* C21: a call found the queue empty while a revalidation was in progress and
\* reset the status without calling any collaborator.
C21_Witness ==
    /\ light[1].pc = "done" /\ light[1].out = "unit"
    /\ light[1].cleared[1] = "InProgress"
    /\ light[1].calls = NoLightCalls
    /\ PoolIsEmpty(pool) /\ status = NotScheduled

\* C22: a Light maintain call on a non-empty queue whose header lookup fails or
\* finds no block does nothing more: no remote body request, no prune_known, no
\* is_required, no revalidate_ready; the queue and the status stay as they were
\* and the task is complete.
C22_HeaderFailure ==
    [][\A slot \in Slots :
          /\ (EnterStep(slot) /\ ~PoolIsEmpty(pool))
              => /\ ~light'[slot].empty
                 /\ pool' = pool /\ status' = status
          /\ (/\ CallStep(slot) /\ ~light[slot].empty
              /\ ClientHeader(light'[slot].id).res # "ok")
              => /\ status' = status
                 /\ pool' = pool
                 /\ LET l == light'[slot]
                    IN  /\ l.pc = "done" /\ l.out = "unit"
                        /\ l.header = ClientHeader(l.id).res
                        /\ l.calls = [NoLightCalls EXCEPT !.header = 1]
                        /\ l.prune = "none" /\ l.reval = "none" /\ ~l.required
                        /\ l.known_at = None /\ l.reval_at = None]_vars

\* C22: the block is not known to the client while the schedule is armed and
\* the queue holds a transaction.
C22_Witness ==
    /\ light[1].pc = "done" /\ light[1].id = MissingId /\ light[1].header = "none"
    /\ light[1].calls.header = 1 /\ light[1].calls.remote_body = 0
    /\ status.tag = "Scheduled" /\ ~PoolIsEmpty(pool)

\* The prune future of a call completes.
PruneStepDone(slot) ==
    /\ light[slot].prune = "pending"
    /\ light'[slot].pc # "idle" /\ light'[slot].prune # "pending"

\* C23: when remote_body succeeded, prune_known is called once, at the new
\* block, with the queue-assigned hashes of the returned transactions, which
\* removes these from the queue when it succeeds; when remote_body failed,
\* prune_known is not called and the step leaves the queue as it was.
C23_PruneStep ==
    /\ [](\A slot \in Slots :
             LET l == light[slot]
             IN  /\ l.prune = "pending" => l.calls.prune_known = 0
                 /\ l.fetch = "ok"
                      => /\ l.calls.prune_known = 1
                         /\ l.known_at = Some(l.id)
                         /\ l.hashes = [i \in DOMAIN l.transactions |->
                                           HashOf(l.transactions[i])]
                 /\ l.fetch = "err"
                      => /\ l.calls.prune_known = 0
                         /\ l.known_at = None /\ l.hashes = <<>>)
    /\ [][\A slot \in Slots :
             PruneStepDone(slot)
                => /\ light'[slot].fetch \in {"ok", "err"}
                   /\ light'[slot].fetch = "err" => pool' = pool
                   /\ light'[slot].prune = "prune_err" => pool' = pool
                   /\ light'[slot].prune = "ok"
                        => pool' = [tx \in Txs |->
                                      IF tx \in Range(light'[slot].transactions)
                                      THEN "none" ELSE pool[tx]]]_vars

\* C23: the body with every extrinsic was fetched for block 2 and pruned by hash.
C23_Witness ==
    /\ light[1].fetch = "ok" /\ light[1].prune = "ok" /\ light[1].id = 2
    /\ light[1].transactions = <<0, 1, 2, 3>>
    /\ light[1].hashes = <<HashOf(0), HashOf(1), HashOf(2), HashOf(3)>>
    /\ light[1].known_at = Some(2) /\ light[1].calls.prune_known = 1
    /\ PoolIsEmpty(pool)

\* The revalidation pass of a call completes.
RevalStepDone(slot) ==
    /\ light[slot].reval = "pending"
    /\ light'[slot].pc # "idle" /\ light'[slot].reval # "pending"

\* C24: when is_required answered true, revalidate_ready is invoked once, at the
\* new block, and when it finishes the status is NotScheduled, whether it
\* succeeded or failed; when is_required answered false, revalidate_ready is not
\* invoked and the call does not clear the status.
C24_RevalidateStep ==
    /\ [](\A slot \in Slots :
             LET l == light[slot]
             IN  l.header = "ok"
                   => /\ l.required
                           => /\ l.calls.revalidate_ready = 1
                              /\ l.reval_at = Some(l.id)
                              /\ l.reval \in {"pending", "ok", "err"}
                      /\ ~l.required
                           => /\ l.calls.revalidate_ready = 0
                              /\ l.reval_at = None
                              /\ l.reval = "skip"
                              /\ l.cleared = <<"none", 0>>)
    /\ [][\A slot \in Slots :
             RevalStepDone(slot)
                => /\ light'[slot].reval \in Completed
                   /\ status' = NotScheduled
                   /\ light'[slot].cleared[1] = status.tag]_vars

\* C24: revalidate_ready failed and the status was reset all the same.
C24_Witness ==
    /\ light[1].required /\ light[1].reval = "err"
    /\ light[1].calls.revalidate_ready = 1 /\ light[1].reval_at = Some(light[1].id)
    /\ light[1].cleared[1] = "InProgress"
    /\ status = NotScheduled /\ ~PoolIsEmpty(pool)

\* C25 as stated: after a Light maintain call with a non-empty queue, a resolved
\* header and a fetched body has completed, no transaction of the body is queued
\* and every other transaction is as it was before the call.
C25_Original ==
    /\ [](\A slot \in Slots :
             LET l == light[slot]
             IN  (l.pc = "done" /\ l.header = "ok" /\ l.fetch = "ok")
                    => \A tx \in Txs :
                          tx \in Range(l.transactions) => pool[tx] = "none")
    /\ [][\A slot \in Slots :
             (light[slot].pc = "running" /\ light[slot].fetch = "ok")
                => \A tx \in Txs :
                      pool'[tx] # pool[tx] => tx \in Range(light[slot].transactions)]_vars

\* C25 (amended): after such a call has completed, when prune_known succeeded no
\* transaction of the fetched body is queued; a transaction changes during the
\* call only by being removed, either as a transaction of the body by a
\* successful prune_known or as a ready transaction by the revalidation pass a
\* due schedule started in this call; when prune_known failed the prune step
\* removed nothing.
C25_PruneResult ==
    /\ [](\A slot \in Slots :
             LET l == light[slot]
             IN  (l.pc = "done" /\ l.header = "ok" /\ l.prune = "ok")
                    => \A tx \in Txs :
                          tx \in Range(l.transactions) => pool[tx] = "none")
    /\ [][\A slot \in Slots :
             light[slot].pc = "running"
                => \A tx \in Txs :
                      pool'[tx] # pool[tx]
                         => \/ /\ PruneStepDone(slot)
                               /\ light'[slot].prune = "ok"
                               /\ tx \in Range(light'[slot].transactions)
                               /\ pool'[tx] = "none"
                            \/ /\ ResolveStep(slot)
                               /\ light[slot].required /\ light'[slot].resolved = "ok"
                               /\ pool[tx] = "ready" /\ pool'[tx] = "none"]_vars

\* C25: T1 was in the fetched body and is gone; T2 (future) and T3 (ready) are
\* still queued; no revalidation ran.
C25_Witness ==
    /\ light[1].pc = "done" /\ light[1].header = "ok" /\ light[1].prune = "ok"
    /\ light[1].transactions = <<1>> /\ light[1].reval = "skip"
    /\ pool[1] = "none" /\ pool[2] = "future" /\ pool[3] = "ready"

\* The schedule is armed and a deadline is reached at block `id` and clock
\* reading `instant`.
DeadlineReached(self, id, instant) ==
    /\ self.tag = "Scheduled"
    /\ \/ \E t \in self.at_time : instant >= t
       \/ \E b \in self.at_block : id \in Numbers /\ id >= b

\* A step of the task of a call that armed the schedule and started no pass.
FreshCall(slot) ==
    /\ light[slot].pc = "running" /\ light'[slot].pc # "idle"
    /\ light[slot].reval = "skip" /\ mutex.writer = slot

\* C26 as stated: a maintain call on a non-empty queue starts a revalidation pass
\* when the status is Scheduled with a deadline reached; a call in NotScheduled
\* starts none and its task leaves the ready transactions in the queue.
C26_Original ==
    [][\A slot \in Slots :
          /\ (CallStep(slot) /\ ~light[slot].empty)
                => /\ DeadlineReached(status, light'[slot].id, now)
                        => light'[slot].reval = "pending"
                   /\ status = NotScheduled => light'[slot].reval # "pending"
          /\ FreshCall(slot) => Ready(pool) \subseteq Ready(pool')]_vars

\* C26 (amended): a maintain call on a non-empty queue whose header lookup
\* succeeds starts a revalidation pass when the status is Scheduled with a
\* deadline reached by time or by block number, and the pass removes ready
\* transactions only, and only when revalidate_ready succeeds; a call in
\* NotScheduled arms the schedule, starts no pass, and its task removes no ready
\* transaction but those of the fetched body.
C26_WhenPassRuns ==
    [][\A slot \in Slots :
          /\ (/\ CallStep(slot) /\ ~light[slot].empty
              /\ ClientHeader(light'[slot].id).res = "ok")
                => /\ DeadlineReached(status, light'[slot].id, now)
                        => /\ light'[slot].reval = "pending"
                           /\ light'[slot].calls.revalidate_ready = 1
                           /\ status' = InProgress
                   /\ status = NotScheduled
                        => /\ light'[slot].reval = "skip"
                           /\ light'[slot].calls.revalidate_ready = 0
                           /\ status'.tag = "Scheduled"
          /\ ResolveStep(slot)
                => \A tx \in Txs :
                      pool'[tx] # pool[tx]
                         => /\ pool[tx] = "ready" /\ pool'[tx] = "none"
                            /\ light'[slot].resolved = "ok"
          /\ RevalStepDone(slot)
                => /\ pool' = pool
                   /\ light'[slot].reval = light[slot].resolved
          /\ FreshCall(slot)
                => \A tx \in Ready(pool) \ Ready(pool') :
                      tx \in Range(light'[slot].transactions)]_vars

\* C26: no time period, the block deadline was reached, the fetched body was
\* empty and the pass removed every ready transaction; a future one is left.
C26_Witness ==
    /\ light[1].pc = "done" /\ light[1].required /\ light[1].reval = "ok"
    /\ periods.time = None
    /\ light[1].fetch = "ok" /\ light[1].transactions = <<>>
    /\ light[1].cleared[1] = "InProgress"
    /\ ReadyCount(pool) = 0 /\ FutureCount(pool) = 1

\* C27: within one maintain call no collaborator operation is made a second
\* time, also after it failed.  Full: one block read for each retracted hash,
\* one submit_at, at most one read of the new block and at most one prune.
\* Light: at most one header lookup, one remote_body request, one prune_known
\* and one revalidate_ready.
C27_NoRetry ==
    /\ full.pc \in {"running", "done"}
          => /\ Len(full.calls.bodies) = Len(full.retracted)
             /\ \A i \in DOMAIN full.calls.bodies : full.calls.bodies[i] = 1
             /\ full.calls.submit_at = 1
             /\ full.calls.block = (IF PoolIsEmpty(full.pool0) THEN 0 ELSE 1)
             /\ full.calls.prune = (IF full.prune = "none" THEN 0 ELSE 1)
    /\ \A slot \in Slots :
          LET l == light[slot]
          IN  /\ l.calls.header <= 1 /\ l.calls.remote_body <= 1
              /\ l.calls.prune_known <= 1 /\ l.calls.revalidate_ready <= 1
              /\ l.header \in {"ok", "err"} => l.calls.header = 1
              /\ l.prune \in {"fetch_err", "prune_err"} => l.calls.remote_body = 1
              /\ l.prune = "prune_err" => l.calls.prune_known = 1
              /\ l.reval = "err" => l.calls.revalidate_ready = 1

\* C27: a Full call whose retracted block could not be read and whose submit_at
\* and prune both failed has made each call once.
C27_Witness ==
    /\ full.pc = "done" /\ full.retracted = <<BrokenHash>>
    /\ full.resubmit = "err" /\ full.prune = "err"
    /\ full.calls = [bodies |-> <<1>>, submit_at |-> 1, block |-> 1, prune |-> 1]

\* C28: whatever the queue, the status, the clock and the block, the next Light
\* maintain call with a retracted set does to the queue, the status and its
\* mutex what the call without one does, and returns the same task but for the
\* argument it records; it adds nothing to the queue.  The steps of the task
\* read nothing but that task and the shared state, so the collaborator calls
\* and the final queue and status are the same too.
C28_RetractedIgnored ==
    \A slot \in Slots :
        /\ FreeSlot(slot)
            => \A id \in BlockIds :
                  LET without == LightEntered(id, <<>>, 1, NoFirst)
                  IN  \A retracted \in ReorgSets :
                         LET with == LightEntered(id, retracted, 1, NoFirst)
                         IN  /\ with.pool = pool
                             /\ with.task.retracted = retracted
                             /\ [with EXCEPT !.task.retracted = <<>>] = without
        /\ light[slot].pc = "entered"
            => LET with == LightStart(slot, light[slot])
                   without == LightStart(slot, [light[slot] EXCEPT !.retracted = <<>>])
               IN  /\ with.task.retracted = light[slot].retracted
                   /\ [with EXCEPT !.task.retracted = <<>>] = without

\* C28: a call with the retracted block of T1 pruned nothing and started no
\* pass; T1, which is signed and was not queued, has not been resubmitted.
C28_Witness ==
    /\ light[1].pc = "done" /\ light[1].retracted = <<1>>
    /\ IsSignedOf(1) = Some(TRUE) /\ InBody(1, 1)
    /\ light[1].prune = "ok" /\ light[1].transactions = <<>>
    /\ light[1].reval = "skip"
    /\ pool[1] = "none" /\ pool[3] = "ready"

\* C29: when the queue was not empty at the call and the new block was read,
\* prune is called once, at the new block, with the parent hash recorded in the
\* block's header and with every extrinsic of its body, signed or not, in body
\* order; otherwise prune is not called.
C29_PruneArguments ==
    full.pc \in {"running", "done"}
        => IF ~PoolIsEmpty(full.pool0) /\ ClientBlock(full.id).res = "ok"
           THEN /\ full.calls.prune = 1
                /\ full.prune \in {"pending", "ok", "err"}
                /\ full.prune_at = Some(full.id)
                /\ full.parent = ClientBlock(full.id).parent_hash
                /\ full.extrinsics = Ascending({tx \in Extrinsics : InBody(tx, full.id)})
           ELSE /\ full.calls.prune = 0
                /\ full.prune = "none" /\ full.prune_at = None

\* C29: the new block holds every extrinsic: the unsigned T2 and the
\* undeterminable 0 are handed to prune with the signed ones.
C29_Witness ==
    /\ full.pc = "done" /\ full.id = 1 + MaxTx /\ full.prune = "ok"
    /\ full.prune_at = Some(1 + MaxTx)
    /\ full.parent = ClientBlock(1 + MaxTx).parent_hash
    /\ full.extrinsics = <<0, 1, 2, 3>>
    /\ IsSignedOf(2) = Some(FALSE)
    /\ ~PoolIsEmpty(full.pool0)

\* The revalidation passes in flight.
PassesInFlight ==
    {slot \in Slots : light[slot].reval = "pending" /\ light[slot].resolved = "none"}

\* C30 as stated: whatever the interleaving of Light maintain calls, at most one
\* revalidate_ready call started by the maintainer is outstanding.
C30_Original == Cardinality(PassesInFlight) <= 1

\* C31 as stated: once maintain(B', R) on a block B' the client holds has
\* completed, with neither submit_at nor prune having failed, no user-signed
\* transaction that is both in a block of R and in B' is queued, also when the
\* queue was empty at the call.
C31_Original ==
    (full.pc = "done" /\ full.id \in KnownHashes
        /\ full.resubmit = "ok" /\ full.prune # "err")
        => \A tx \in RetractedSigned(full.retracted) :
              InBody(tx, full.id) => pool[tx] = "none"

\* A maintain call made on the Light maintainer once the task of the call
\* before it has completed returns a task that is still to run.
NextCallStep == CallStep(1) /\ light'[1].pc = "running"

\* C32: a Light maintainer with block period n, called one call at a time for
\* ever higher blocks with every task run to completion, a queue that stays
\* non-empty and headers that resolve: an armed schedule whose block deadline is
\* still to come leads to a revalidation pass; a pass leads to its completion
\* with the status back at NotScheduled; the call that finds NotScheduled
\* re-arms at its block number plus n, and as long as a higher block is to come
\* NotScheduled leads to an armed schedule; a call that finds the schedule
\* armed at a block number at or above the deadline starts a pass.
C32_Liveness ==
    /\ (/\ status.tag = "Scheduled"
        /\ \E at \in status.at_block : at <= MaxBlockNum
        /\ light[1].id < MaxBlockNum)
          ~> (light[1].reval = "pending" /\ status = InProgress)
    /\ (light[1].reval = "pending")
          ~> (light[1].pc = "done" /\ light[1].reval \in Completed
              /\ status = NotScheduled)
    /\ (status = NotScheduled /\ (light[1].pc = "idle" \/ light[1].id < MaxBlockNum))
          ~> (status.tag = "Scheduled")
    /\ [][NextCallStep =>
            LET l == light'[1]
            IN  /\ status = NotScheduled
                    => /\ status'.tag = "Scheduled"
                       /\ status'.at_block = {l.number + n : n \in periods.block}
                       /\ l.reval = "skip"
                /\ (status.tag = "Scheduled"
                      /\ \E at \in status.at_block : l.number >= at)
                    => /\ status' = InProgress
                       /\ l.reval = "pending"
                       /\ l.calls.revalidate_ready = 1]_vars

\* C32: with block period 0 and no time period the call for the highest block
\* has armed the schedule again: the call for block 0 had armed it, and a pass
\* started by a call in between has completed and cleared the status.
C32_Witness ==
    /\ periods = [time |-> None, block |-> Some(0)]
    /\ light[1].pc = "done" /\ light[1].id = MaxBlockNum
    /\ status = Scheduled(None, Some(MaxBlockNum))

\* C33: an is_required call made in Scheduled(t, b) that is not due leaves t
\* and b as they were, and what the call returns and leaves in Scheduled is the
\* same for every time_period and block_period it could have been given: it is
\* decided by t, b, the clock and the block number alone.
C33_DeadlinesFixed ==
    (obs.op = "is_required" /\ obs.pre.tag = "Scheduled")
        => /\ ~obs.ret => /\ status.tag = "Scheduled"
                          /\ status.at_time = obs.pre.at_time
                          /\ status.at_block = obs.pre.at_block
           /\ \A time_period \in PeriodOpts, block_period \in PeriodOpts :
                 IsRequired(obs.pre, obs.block, time_period, block_period, obs.at)
                     = [status |-> status, ret |-> obs.ret]

\* C33: armed at block 0 with block period 1 and no time period; a later call
\* at block 0 with both periods zero, at a later time, has neither fired nor
\* moved the deadline.
C33_Witness ==
    /\ obs.op = "is_required" /\ obs.pre = Scheduled(None, Some(1))
    /\ obs.armed = [block |-> 0, block_period |-> Some(1)]
    /\ obs.block = 0 /\ obs.at > 0
    /\ obs.time_period = Some(0) /\ obs.block_period = Some(0)
    /\ ~obs.ret /\ status = Scheduled(None, Some(1))

\* C34: an is_required call returns true exactly when it takes the status from
\* Scheduled to InProgress; a call that returned true has left InProgress, and
\* a call that returned false has left the status as it was or has taken it
\* from NotScheduled to Scheduled.
C34_ReturnAndTransition ==
    obs.op = "is_required"
        => /\ obs.ret <=> (obs.pre.tag = "Scheduled" /\ status = InProgress)
           /\ obs.ret => status = InProgress
           /\ ~obs.ret => \/ status = obs.pre
                          \/ obs.pre = NotScheduled /\ status.tag = "Scheduled"

\* C34: a call that found only a block deadline set, and reached, returned true
\* and left InProgress.
C34_Witness ==
    /\ obs.op = "is_required" /\ obs.ret
    /\ obs.pre.tag = "Scheduled" /\ obs.pre.at_time = None
    /\ \E b \in obs.pre.at_block : obs.block >= b
    /\ status = InProgress

\* C35: with Light maintain calls made one at a time and every task run to
\* completion, the status is InProgress exactly while a revalidate_ready call of
\* the maintainer is outstanding, that is from the is_required call that starts
\* it until the handler mapped after it has run, and it is not InProgress
\* between calls.
C35_InProgressTracksPass ==
    /\ (status = InProgress)
          <=> (light[1].pc = "running" /\ light[1].reval = "pending"
               /\ light[1].calls.revalidate_ready = 1)
    /\ light[1].pc \in {"idle", "done", "entered"} => status # InProgress

\* C35: the prune future of the call has completed on a fetched body that is
\* not empty, the revalidate_ready call is still outstanding and the status is
\* InProgress.
C35_Witness ==
    /\ light[1].pc = "running" /\ light[1].prune = "ok"
    /\ light[1].transactions # <<>>
    /\ light[1].reval = "pending" /\ status = InProgress

\* What a call's task records of its prune future, and of its revalidate future.
PruneSide(l) ==
    <<l.prune, l.fetch, l.transactions, l.hashes, l.known_at,
      l.calls.remote_body, l.calls.prune_known>>
RevalSide(l) ==
    <<l.reval, l.resolved, l.required, l.reval_at, l.calls.revalidate_ready, l.cleared>>

\* C36: in a Light maintain call that reaches the prune and revalidate steps,
\* the completion of either sub-task leaves what the other one has done and will
\* do as it was, in whichever order they complete: the prune step changes
\* neither the status nor the revalidation's calls, the revalidation step
\* changes nothing of the prune's calls and leaves NotScheduled; and the
\* completed task has made one remote_body call, one prune_known call with the
\* hashes of the fetched transactions exactly when the fetch succeeded, one
\* revalidate_ready call exactly when is_required answered true, and has left
\* NotScheduled after a pass and the armed schedule otherwise.
C36_OrderIndependent ==
    /\ [](LET l == light[1]
          IN  (l.pc = "done" /\ l.header = "ok")
                => /\ l.prune \in {"ok", "fetch_err", "prune_err"}
                   /\ l.reval \in {"skip", "ok", "err"}
                   /\ l.calls = [header |-> 1, remote_body |-> 1,
                                 prune_known |-> IF l.fetch = "ok" THEN 1 ELSE 0,
                                 revalidate_ready |-> IF l.required THEN 1 ELSE 0]
                   /\ l.hashes = [i \in DOMAIN l.transactions |-> HashOf(l.transactions[i])]
                   /\ l.known_at = (IF l.fetch = "ok" THEN Some(l.id) ELSE None)
                   /\ l.reval_at = (IF l.required THEN Some(l.id) ELSE None)
                   /\ l.required => status = NotScheduled
                   /\ ~l.required => status.tag = "Scheduled")
    /\ [][/\ PruneStepDone(1)
             => /\ status' = status
                /\ RevalSide(light'[1]) = RevalSide(light[1])
          /\ ResolveStep(1)
             => /\ status' = status
                /\ PruneSide(light'[1]) = PruneSide(light[1])
          /\ RevalStepDone(1)
             => /\ status' = NotScheduled
                /\ PruneSide(light'[1]) = PruneSide(light[1])]_vars

\* C36: the revalidation pass of a call has completed and cleared the status
\* while the call's remote_body request is still outstanding.
C36_Witness ==
    /\ light[1].pc = "running" /\ light[1].prune = "pending"
    /\ light[1].required /\ light[1].reval = "ok"
    /\ light[1].calls = [header |-> 1, remote_body |-> 1, prune_known |-> 0,
                         revalidate_ready |-> 1]
    /\ status = NotScheduled

\* A step of the task a Light maintain call has returned.
TaskStep(slot) ==
    /\ light[slot].pc = "running" /\ light'[slot].pc # "idle"
    /\ light'[slot] # light[slot]

\* C37: a Light maintain call that reaches the prune and revalidate steps has
\* made its one is_required call, and the status holds that call's answer
\* (NotScheduled armed, or Scheduled fired to InProgress exactly when the answer
\* is true), when the call returns its task; the task makes no is_required call,
\* and it writes the status only when its revalidate_ready call has completed,
\* clearing it.
C37_DecidedAtCall ==
    /\ [](\A slot \in Slots :
             light[slot].is_required_calls = (IF light[slot].header = "ok" THEN 1 ELSE 0))
    /\ [][\A slot \in Slots :
             LET l == light'[slot]
             IN  /\ (CallStep(slot) /\ l.pc = "running")
                      => /\ l.is_required_calls = 1
                         /\ status = NotScheduled
                              => status'.tag = "Scheduled" /\ ~l.required
                         /\ l.required <=> (status.tag = "Scheduled" /\ status' = InProgress)
                         /\ (~l.required /\ status # NotScheduled) => status' = status
                         /\ l.required <=> l.reval = "pending"
                 /\ TaskStep(slot)
                      => /\ l.is_required_calls = light[slot].is_required_calls
                         /\ l.required = light[slot].required
                         /\ status' # status
                              => /\ RevalStepDone(slot)
                                 /\ l.reval \in Completed
                                 /\ status' = NotScheduled]_vars

\* C37: maintain has returned a task none of whose futures has run yet, and the
\* status is already InProgress.
C37_Witness ==
    /\ light[1].pc = "running" /\ light[1].is_required_calls = 1
    /\ light[1].prune = "pending" /\ light[1].reval = "pending"
    /\ light[1].calls.prune_known = 0 /\ light[1].required
    /\ status = InProgress


====
